---- MODULE Spec2Model ----
(***************************************************************************)
(* A model of the PDF question-answering program: the chunker, the          *)
(* embedding batches of processPdf, the ranking of generateAnswer and the   *)
(* session state of the App component.                                      *)
(*                                                                          *)
(* Strings are sequences of characters.  A page text of length n is the     *)
(* sequence "1", "2", ..., "n", so that every character names its own       *)
(* position and a wrong slice is a different value.                         *)
(***************************************************************************)
EXTENDS Integers, Sequences, FiniteSets, TLC

VARIABLES
    \* chunkText(pages, chunkSize, overlap): its arguments and its loop state
    ckPages, ckSize, ckOverlap, ckIdx, ckStart, ckChunks, ckPc,
    \* processPdf(file, onProgress): the pages of the file, the chunks being
    \* embedded, the loop index i, the getEmbedding calls in flight, the
    \* callbacks of batch.map that have finished, the chunk ids warned about,
    \* the last status given to onProgress, and the returned document
    ppPages, ppChunks, ppI, ppPending, ppSettled, ppWarned, ppStatus, ppFullText,
    ppResult, ppPc,
    \* one generateAnswer(question, docData) call, the fragments its
    \* consumer has received from it, in order, and the response stream
    \* getCompletionStream reads: the texts it has produced and how it ended
    ga, gaYields, gaStream,
    \* the state of the App component (useState), whether its tree is still
    \* mounted, the handleFileSelect calls awaiting processPdf, the
    \* handleSendMessage calls reading their stream, the millisecond the
    \* clock was read in last, the number of sessions created so far and
    \* the questions sent so far
    file, isProcessing, processedDoc, messages, processingStatus, isGenerating,
    chats, activeChatId, mounted, uploads, gens, now, created, asked,
    \* the choice of a strategy at the head of generateAnswer: the question
    \* and the strategy chosen for it
    stQuestion, stStrategy

ckVars == <<ckPages, ckSize, ckOverlap, ckIdx, ckStart, ckChunks, ckPc>>

ppVars == <<ppPages, ppChunks, ppI, ppPending, ppSettled, ppWarned, ppStatus,
            ppFullText, ppResult, ppPc>>

gaVars == <<ga, gaYields, gaStream>>

appVars == <<file, isProcessing, processedDoc, messages, processingStatus,
             isGenerating, chats, activeChatId, mounted, uploads, gens, now,
             created, asked>>

stVars == <<stQuestion, stStrategy>>

vars == <<ckVars, ppVars, gaVars, appVars, stVars>>

\* what the steps of one part leave alone
ckFrame == <<ppVars, gaVars, appVars, stVars>>

ppFrame == <<ckVars, gaVars, appVars, stVars>>

gaFrame == <<ckVars, ppVars, appVars, stVars>>

appFrame == <<ckVars, ppVars, gaVars, stVars>>

stFrame == <<ckVars, ppVars, gaVars, appVars>>

(***************************************************************************)
(* Bounds of the model.                                                     *)
(***************************************************************************)
MaxTextLen == 5
MaxPages == 2
MaxChunkSize == 3
MaxPdfPages == 7
MaxDocChunks == 9
MaxNaNDocChunks == 7
MaxInexactDocChunks == 2
MaxFragments == 2
MaxChats == 2
MaxClock == 2
MaxAsked == 1
MaxMessages == 3
MaxCapabilityCalls == 3
MaxUlps == 1

\* the cap on the chunks of one run: a run whose step is positive emits at
\* most one chunk per character and never meets it
MaxChunks == MaxPages * MaxTextLen + 1

(***************************************************************************)
(* Helpers: JavaScript's Math.min, String.prototype.slice and the decimal   *)
(* rendering of a number inside a template string.                          *)
(***************************************************************************)
Min(a, b) == IF a <= b THEN a ELSE b

Max(a, b) == IF a >= b THEN a ELSE b

\* text.slice(from, to): a negative index counts from the end, both are
\* clamped to 0..length, and an empty range gives the empty string.
Slice(text, from, to) ==
    LET len == Len(text)
        f == IF from < 0 THEN Max(len + from, 0) ELSE Min(from, len)
        t == IF to < 0 THEN Max(len + to, 0) ELSE Min(to, len)
    IN  IF f < t THEN SubSeq(text, f + 1, t) ELSE <<>>

DigitChar(d) == <<"0", "1", "2", "3", "4", "5", "6", "7", "8", "9">>[d + 1]

RECURSIVE NatToStr(_)
NatToStr(n) ==
    IF n < 10 THEN <<DigitChar(n)>>
    ELSE NatToStr(n \div 10) \o <<DigitChar(n % 10)>>

\* `${n}` for an integer n
NumToStr(n) == IF n < 0 THEN <<"-">> \o NatToStr(0 - n) ELSE NatToStr(n)

(***************************************************************************)
(* chunkText                                                                *)
(***************************************************************************)
\* the page text of length n
PageText(n) == [i \in 1..n |-> ToString(i)]

\* what extractTextFromPdf returns: pages numbered 1, 2, ... in order
PagesOf(lens) == [i \in 1..Len(lens) |-> [text |-> PageText(lens[i]), page |-> i]]

\* an id made of the page alone
ChunkIdOfPageOnly(page, start) == NumToStr(page) \o <<"-">> \o NumToStr(0)

\* id: `${page}-${start}`
ChunkId(page, start) == NumToStr(page) \o <<"-">> \o NumToStr(start)

\* end = Math.min(start + chunkSize, text.length)
WindowEnd(text, start, chunkSize) == Min(start + chunkSize, Len(text))

\* the chunk pushed by one pass of the loop body
MakeChunk(text, page, start, chunkSize) ==
    [id |-> ChunkId(page, start),
     text |-> Slice(text, start, WindowEnd(text, start, chunkSize)),
     pageNumber |-> page]

\* the advance with the overlap added instead of subtracted
NextStartSkipping(start, chunkSize, overlap) == start + (chunkSize + overlap)

\* start += (chunkSize - overlap)
NextStart(start, chunkSize, overlap) == start + (chunkSize - overlap)

\* chunkText is called: the forEach stands at the first page
ChunkInit ==
    /\ ckPages \in {PagesOf(lens) : lens \in UNION {[1..n -> 0..MaxTextLen] : n \in 0..MaxPages}}
    /\ ckSize \in 1..MaxChunkSize
    /\ ckOverlap \in 0..MaxChunkSize
    /\ ckIdx = 1
    /\ ckStart = 0
    /\ ckChunks = <<>>
    /\ ckPc = "loop"

\* one pass of the while loop on the current page: push the window, advance
\* start, and leave the page when start has reached the end of its text
ChunkStep ==
    /\ ckPc = "loop"
    /\ ckIdx <= Len(ckPages)
    /\ ckStart < Len(ckPages[ckIdx].text)
    /\ Len(ckChunks) < MaxChunks
    /\ LET p == ckPages[ckIdx]
           s == NextStart(ckStart, ckSize, ckOverlap)
       IN  /\ ckChunks' = Append(ckChunks, MakeChunk(p.text, p.page, ckStart, ckSize))
           /\ IF s >= Len(p.text)
              THEN ckIdx' = ckIdx + 1 /\ ckStart' = 0
              ELSE ckIdx' = ckIdx /\ ckStart' = s
    /\ UNCHANGED <<ckPages, ckSize, ckOverlap, ckPc, ckFrame>>

\* the while condition is false on entry: a page with no text has no chunk
ChunkSkipPage ==
    /\ ckPc = "loop"
    /\ ckIdx <= Len(ckPages)
    /\ ~(ckStart < Len(ckPages[ckIdx].text))
    /\ ckIdx' = ckIdx + 1
    /\ ckStart' = 0
    /\ UNCHANGED <<ckPages, ckSize, ckOverlap, ckChunks, ckPc, ckFrame>>

\* the forEach is over: return chunks
ChunkReturn ==
    /\ ckPc = "loop"
    /\ ckIdx > Len(ckPages)
    /\ ckPc' = "done"
    /\ UNCHANGED <<ckPages, ckSize, ckOverlap, ckIdx, ckStart, ckChunks, ckFrame>>

ChunkNext == ChunkStep \/ ChunkSkipPage \/ ChunkReturn

\* the while loop of one page from `start` on, as a value (chunkSize > overlap)
RECURSIVE ChunkPage(_, _, _, _, _)
ChunkPage(text, page, start, chunkSize, overlap) ==
    IF ~(start < Len(text)) THEN <<>>
    ELSE LET s == NextStart(start, chunkSize, overlap)
         IN  <<MakeChunk(text, page, start, chunkSize)>> \o
             (IF s >= Len(text) THEN <<>> ELSE ChunkPage(text, page, s, chunkSize, overlap))

\* chunkText(pages, chunkSize, overlap) as a value (chunkSize > overlap)
RECURSIVE chunkText(_, _, _)
chunkText(pages, chunkSize, overlap) ==
    IF Len(pages) = 0 THEN <<>>
    ELSE ChunkPage(pages[1].text, pages[1].page, 0, chunkSize, overlap) \o
         chunkText(Tail(pages), chunkSize, overlap)

\* the default arguments of chunkText
DefaultChunkSize == 4000

DefaultOverlap == 500

(***************************************************************************)
(* processPdf                                                               *)
(***************************************************************************)
batchSize == 5

\* a field that is not set reads as undefined; a set field holds its value
Undefined == <<>>

Some(v) == <<v>>

\* the vectors the embedding capability answers with while a file is processed
PdfVectors == {<<1, 0>>, <<0, 1>>}

\* the line break
NewLine == "\n"

\* pages.map(p => p.text).join('\n\n')
RECURSIVE JoinTexts(_)
JoinTexts(pages) ==
    IF Len(pages) = 0 THEN <<>>
    ELSE IF Len(pages) = 1 THEN pages[1].text
    ELSE pages[1].text \o <<NewLine, NewLine>> \o JoinTexts(Tail(pages))

\* a chunk as chunkText returns it: its embedding is not set
Unembedded(c) == [id |-> c.id, text |-> c.text, pageNumber |-> c.pageNumber,
                  embedding |-> Undefined]

\* the chunks without the filter on their embedding
ValidChunksUnfiltered(chunks) == chunks

\* chunks.filter(c => c.embedding !== undefined)
ValidChunks(chunks) == SelectSeq(chunks, LAMBDA c : c.embedding # Undefined)

\* every chunk from i on in one batch
BatchOfAllRemaining(i, n) == (i + 1)..n

\* chunks.slice(i, i + batchSize), as the positions 1..n of its chunks
BatchOf(i, n) == (i + 1)..Min(i + batchSize, n)

\* the status strings given to onProgress
StatusLoading == <<"Loading PDF...">>

StatusParsing(i, n) == <<"Parsing page", i, "of", n>>

StatusEmbedding(i, n) == <<"Embedding chunks", i + 1, "to", Min(i + batchSize, n), "of", n>>

\* the texts of the files: at most one page without text
PdfPageLens ==
    {lens \in UNION {[1..n -> 0..1] : n \in 0..MaxPdfPages} :
        Cardinality({i \in DOMAIN lens : lens[i] = 0}) <= 1}

\* processPdf is called and awaits extractTextFromPdf
PdfInit ==
    /\ ppPages \in {PagesOf(lens) : lens \in PdfPageLens}
    /\ ppChunks = <<>>
    /\ ppI = 0
    /\ ppPending = {}
    /\ ppSettled = {}
    /\ ppWarned = <<>>
    /\ ppStatus = StatusLoading
    /\ ppFullText = <<>>
    /\ ppResult = Undefined
    /\ ppPc = "extract"

\* the head of the for loop at index i over `chunks`: either the next batch
\* is issued whole (batch.map calls getEmbedding for each of its chunks before
\* Promise.all is awaited), or the loop is over and the document is returned
PdfLoopHead(chunks, i, fullText) ==
    IF i < Len(chunks)
    THEN /\ ppI' = i
         /\ ppPending' = BatchOf(i, Len(chunks))
         /\ ppStatus' = StatusEmbedding(i, Len(chunks))
         /\ ppResult' = Undefined
         /\ ppPc' = "embed"
    ELSE /\ ppI' = i
         /\ ppPending' = {}
         /\ ppStatus' = IF Len(chunks) = 0
                         THEN <<"Generating embeddings for", 0, "chunks...">>
                         ELSE ppStatus
         /\ ppResult' = Some([chunks |-> ValidChunks(chunks), fullText |-> fullText])
         /\ ppPc' = "done"

\* the page extractTextFromPdf has last asked pdf.js for: none before its
\* loop, then the i of `Parsing page i of n...`
PageRequested(status) == IF status = StatusLoading THEN 0 ELSE status[2]

\* the file is read and the loop of extractTextFromPdf goes on: the pages
\* before page j are parsed, onProgress reports page j and getPage(j) is
\* awaited
PdfPageRequested ==
    /\ ppPc = "extract"
    /\ \E j \in (PageRequested(ppStatus) + 1)..Len(ppPages) :
          ppStatus' = StatusParsing(j, Len(ppPages))
    /\ UNCHANGED <<ppPages, ppChunks, ppI, ppPending, ppSettled, ppWarned,
                   ppFullText, ppResult, ppPc, ppFrame>>

\* extractTextFromPdf resolves: fullText, chunkText(pages), the first batch
PdfExtracted ==
    /\ ppPc = "extract"
    /\ ppFullText' = JoinTexts(ppPages)
    /\ LET chunks == chunkText(ppPages, DefaultChunkSize, DefaultOverlap)
       IN  /\ ppChunks' = [k \in 1..Len(chunks) |-> Unembedded(chunks[k])]
           /\ PdfLoopHead(ppChunks', 0, JoinTexts(ppPages))
    /\ UNCHANGED <<ppPages, ppSettled, ppWarned, ppFrame>>

\* extractTextFromPdf rejects: processPdf rejects.  What is awaited fails,
\* the reading of the file or a page, or a page after it does: the last
\* status is the one reported before the await that failed
PdfExtractFailed ==
    /\ ppPc = "extract"
    /\ ppPc' = "failed"
    /\ \E j \in PageRequested(ppStatus)..Len(ppPages) :
          ppStatus' = IF j = 0 THEN StatusLoading ELSE StatusParsing(j, Len(ppPages))
    /\ UNCHANGED <<ppPages, ppChunks, ppI, ppPending, ppSettled, ppWarned,
                   ppFullText, ppResult, ppFrame>>

\* one callback of batch.map has finished; when it was the last of its batch
\* Promise.all resolves and the loop goes on with i += batchSize
PdfSettle(chunks, k) ==
    /\ ppChunks' = chunks
    /\ ppSettled' = ppSettled \cup {k}
    /\ IF ppPending = {k}
       THEN PdfLoopHead(chunks, ppI + batchSize, ppFullText)
       ELSE /\ ppPending' = ppPending \ {k}
            /\ UNCHANGED <<ppI, ppStatus, ppResult, ppPc>>
    /\ UNCHANGED <<ppPages, ppFullText, ppFrame>>

\* getEmbedding(chunk.text) resolves with a vector: chunk.embedding is set
PdfEmbedded ==
    /\ ppPc = "embed"
    /\ \E k \in ppPending, v \in PdfVectors :
          /\ PdfSettle([ppChunks EXCEPT ![k].embedding = Some(v)], k)
          /\ UNCHANGED ppWarned

\* getEmbedding(chunk.text) rejects: the catch warns and the chunk stays as it is
PdfEmbedFailed ==
    /\ ppPc = "embed"
    /\ \E k \in ppPending :
          /\ PdfSettle(ppChunks, k)
          /\ ppWarned' = Append(ppWarned, ppChunks[k].id)

PdfNext ==
    \/ PdfPageRequested \/ PdfExtracted \/ PdfExtractFailed
    \/ PdfEmbedded \/ PdfEmbedFailed

(***************************************************************************)
(* generateAnswer                                                           *)
(***************************************************************************)
LowerCaseLetters == <<"a", "b", "c", "d", "e", "f", "g", "h", "i", "j", "k", "l", "m",
                      "n", "o", "p", "q", "r", "s", "t", "u", "v", "w", "x", "y", "z">>

UpperCaseLetters == <<"A", "B", "C", "D", "E", "F", "G", "H", "I", "J", "K", "L", "M",
                      "N", "O", "P", "Q", "R", "S", "T", "U", "V", "W", "X", "Y", "Z">>

\* no folding: the pattern without its i flag
FoldCaseNone(ch) == ch

\* the case folding of the i flag of a regular expression
FoldCase(ch) ==
    IF \E i \in 1..26 : UpperCaseLetters[i] = ch
    THEN LowerCaseLetters[CHOOSE i \in 1..26 : UpperCaseLetters[i] = ch]
    ELSE ch

FoldStr(str) == [i \in 1..Len(str) |-> FoldCase(str[i])]

\* str has pat as a substring
Contains(str, pat) ==
    \E i \in 0..(Len(str) - Len(pat)) : SubSeq(str, i + 1, i + Len(pat)) = pat

\* the alternatives of /summar|overview|tl;dr|digest|describe the document/i
SummaryKeywords ==
    { <<"s", "u", "m", "m", "a", "r">>,
      <<"o", "v", "e", "r", "v", "i", "e", "w">>,
      <<"t", "l", ";", "d", "r">>,
      <<"d", "i", "g", "e", "s", "t">>,
      <<"d", "e", "s", "c", "r", "i", "b", "e", " ", "t", "h", "e", " ",
        "d", "o", "c", "u", "m", "e", "n", "t">> }

\* isSummaryRequest
IsSummaryRequest(question) ==
    \E kw \in SummaryKeywords : Contains(FoldStr(question), kw)

MAX_CHARS == 3000000

\* textToSend
TextToSend(fullText) ==
    IF Len(fullText) > MAX_CHARS
    THEN Slice(fullText, 0, MAX_CHARS) \o <<"...[truncated]">>
    ELSE fullText

\* the two prompts, by what they are built from
SummaryPrompt(question, fullText) ==
    [kind |-> "summary", content |-> TextToSend(fullText), question |-> question]

RagPrompt(question, context) ==
    [kind |-> "rag", content |-> context, question |-> question]

RECURSIVE SumTo(_, _)
\* the sum of term[1..n]
SumTo(term, n) == IF n = 0 THEN 0 ELSE SumTo(term, n - 1) + term[n]

\* whether n is the square of an integer: Math.sqrt(n) is then that integer
IsSquare(n) == \E r \in 0..n : r * r = n

\* a score is a double.  It is kept by the three sums of the loop, which are
\* integers and exact, and by `ulps`, the side of the quotient
\* dot / (sqrt(normA) * sqrt(normB)) rounded once on which the double the
\* arithmetic ends with lies, and how many doubles away; scores are only
\* ever compared, so the order of the doubles is all that is kept
NaN == [nan |-> TRUE, dot |-> 0, normA |-> 0, normB |-> 0, ulps |-> 0]

\* the loop of cosineSimilarity: it runs over the indices of vecA; an index
\* vecB does not have reads undefined and makes the sums NaN; 0 / 0 is NaN
Sums(vecA, vecB) ==
    LET n == Len(vecA)
        m == Min(n, Len(vecB))
        dot == SumTo([i \in 1..m |-> vecA[i] * vecB[i]], m)
        normA == SumTo([i \in 1..n |-> vecA[i] * vecA[i]], n)
        normB == SumTo([i \in 1..m |-> vecB[i] * vecB[i]], m)
    IN  IF n > Len(vecB) \/ normA * normB = 0 THEN NaN
        ELSE [nan |-> FALSE, dot |-> dot, normA |-> normA, normB |-> normB, ulps |-> 0]

\* the return statement rounds more than once: each square root, their
\* product and the division.  When both sums of squares are squares the
\* roots and their product are exact and the division rounds once; so does
\* 0 / x.  Otherwise the double can lie beside the quotient rounded once
Inexact(s) == ~s.nan /\ s.dot # 0 /\ ~(IsSquare(s.normA) /\ IsSquare(s.normB))

\* the floating-point arithmetic, as far as these vectors meet it: for the
\* sums of an inexact score, where its double lies
Floats(vecA, vecBs) ==
    [{s \in {Sums(vecA, vecB) : vecB \in vecBs} : Inexact(s)} -> (0 - MaxUlps)..MaxUlps]

\* cosineSimilarity(vecA, vecB), run on the arithmetic fl
cosineSimilarity(vecA, vecB, fl) ==
    LET s == Sums(vecA, vecB)
    IN  IF Inexact(s) THEN [s EXCEPT !.ulps = fl[s]] ELSE s

\* the sign of dot times dot squared: x / sqrt(d) grows with sign(x) x^2 / d
SignedSquare(x) == IF x < 0 THEN 0 - x * x ELSE x * x

\* b - a of two scores, by its sign: 1, 0 or -1; NaN when either is NaN,
\* which a sort takes as 0.  Two quotients that differ as numbers differ by
\* far more than the rounding; two that are equal as numbers are the same
\* double exactly when they lie as far from it
ScoreDiffSign(b, a) ==
    IF b.nan \/ a.nan THEN 0
    ELSE LET l == SignedSquare(b.dot) * (a.normA * a.normB)
             r == SignedSquare(a.dot) * (b.normA * b.normB)
         IN  IF l > r THEN 1 ELSE IF l < r THEN -1
             ELSE IF b.ulps > a.ulps THEN 1 ELSE IF b.ulps < a.ulps THEN -1 ELSE 0

\* (a, b) => b.score - a.score
CompareScores(a, b) == ScoreDiffSign(b.score, a.score)

\* seq from its last element to its first
Reversed(seq) == [k \in 1..Len(seq) |-> seq[Len(seq) + 1 - k]]

\* Array.prototype.sort on an array of fewer than 64 elements, as V8 (Node,
\* Chrome) runs it: the run at the head of the array is found, and reversed when it
\* descends, and every element behind it is put into the sorted head at the
\* place a binary search gives.  The comparator is called with the
\* element that is placed first; a result that is NaN counts as 0.
\* RunLength: the length of the run that reaches idx - 1 at least
RECURSIVE RunLength(_, _, _)
RunLength(seq, idx, isDescending) ==
    IF idx > Len(seq) THEN Len(seq)
    ELSE LET order == CompareScores(seq[idx], seq[idx - 1])
         IN  IF (isDescending /\ order >= 0) \/ (~isDescending /\ order < 0)
             THEN idx - 1
             ELSE RunLength(seq, idx + 1, isDescending)

\* the array with the run at its head made ascending, and the run's length
CountAndMakeRun(seq) ==
    LET isDescending == CompareScores(seq[2], seq[1]) < 0
        runLength == RunLength(seq, 3, isDescending)
    IN  [runLength |-> runLength,
         seq |-> IF isDescending
                 THEN Reversed(SubSeq(seq, 1, runLength)) \o SubSeq(seq, runLength + 1, Len(seq))
                 ELSE seq]

\* the binary search: the number of elements of the sorted head that stay
\* in front of pivot, between left and right
RECURSIVE InsertionPoint(_, _, _, _)
InsertionPoint(seq, pivot, left, right) ==
    IF left >= right THEN left
    ELSE LET mid == left + ((right - left) \div 2)
         IN  IF CompareScores(pivot, seq[mid + 1]) < 0
             THEN InsertionPoint(seq, pivot, left, mid)
             ELSE InsertionPoint(seq, pivot, mid + 1, right)

\* the elements behind the first `start` ones put into the sorted head,
\* one after the other
RECURSIVE BinaryInsertionSort(_, _)
BinaryInsertionSort(seq, start) ==
    IF start >= Len(seq) THEN seq
    ELSE LET pivot == seq[start + 1]
             left == InsertionPoint(seq, pivot, 0, start)
         IN  BinaryInsertionSort(
                 SubSeq(seq, 1, left) \o <<pivot>> \o SubSeq(seq, left + 1, start)
                     \o SubSeq(seq, start + 2, Len(seq)),
                 start + 1)

\* scoredChunks.sort((a, b) => b.score - a.score)
SortByScore(seq) ==
    IF Len(seq) < 2 THEN seq
    ELSE LET run == CountAndMakeRun(seq)
         IN  BinaryInsertionSort(run.seq, run.runLength)

\* scoredChunks: { ...chunk, score }
ScoredChunks(questionEmbedding, chunks, fl) ==
    [k \in 1..Len(chunks) |->
        [id |-> chunks[k].id, text |-> chunks[k].text,
         pageNumber |-> chunks[k].pageNumber, embedding |-> chunks[k].embedding,
         score |-> cosineSimilarity(questionEmbedding, chunks[k].embedding[1], fl)]]

\* the arithmetic one ranking of these chunks can meet
FloatsOf(questionEmbedding, chunks) ==
    Floats(questionEmbedding, {chunks[k].embedding[1] : k \in 1..Len(chunks)})

TopK == 8

\* topChunks = scoredChunks.sort(...).slice(0, 8)
TopChunks(scored) == Slice(SortByScore(scored), 0, TopK)

\* strs.join(sep)
RECURSIVE Join(_, _)
Join(strs, sep) ==
    IF Len(strs) = 0 THEN <<>>
    ELSE IF Len(strs) = 1 THEN strs[1]
    ELSE strs[1] \o sep \o Join(Tail(strs), sep)

\* context = topChunks.map(c => c.text).join('\n\n---\n\n')
Context(top) ==
    Join([k \in 1..Len(top) |-> top[k].text],
         <<NewLine, NewLine, "-", "-", "-", NewLine, NewLine>>)

\* the elements of a set of numbers in ascending order
RECURSIVE Ascending(_)
Ascending(S) ==
    IF S = {} THEN <<>>
    ELSE LET least == CHOOSE x \in S : \A y \in S : x <= y
         IN  <<least>> \o Ascending(S \ {least})

\* the pages in the order the Set first meets them, without the sort
UniquePagesUnsorted(top) ==
    LET first == {k \in 1..Len(top) :
                     \A j \in 1..(k - 1) : top[j].pageNumber # top[k].pageNumber}
        order == Ascending(first)
    IN  [i \in 1..Len(order) |-> top[order[i]].pageNumber]

\* uniquePages
UniquePages(top) == Ascending({top[k].pageNumber : k \in 1..Len(top)})

\* the fragments yielded after the stream, each a string
SummarySource == <<NewLine, NewLine, "**Source:** Full Document Analysis">>

SourcesLine(pages) ==
    <<NewLine, NewLine, "**Sources:** Page">> \o
    (IF Len(pages) > 1 THEN <<"s">> ELSE <<>>) \o <<" ">> \o
    Join([k \in 1..Len(pages) |-> NumToStr(pages[k])], <<",", " ">>)

\* the fragment getCompletionStream yields from its catch
StreamErrorText == <<"Error generating response. Check browser console for details.">>

\* the texts of the chunks of a completion stream; a chunk whose text is
\* empty is passed over and yields nothing
StreamTexts == {<<"A">>, <<"B">>}

\* generateAnswer(question, docData) up to its first await: a generator
\* either awaits the embedding of the question or the completion stream;
\* fl is the arithmetic its ranking ran on
GaStart(question, docData) ==
    IF IsSummaryRequest(question)
    THEN [question |-> question, doc |-> docData, pc |-> "stream",
          questionEmbedding |-> Undefined, fl |-> <<>>, top |-> <<>>,
          prompt |-> Some(SummaryPrompt(question, docData.fullText)),
          calls |-> <<"generateContentStream">>, sent |-> 0]
    ELSE [question |-> question, doc |-> docData, pc |-> "embedQuery",
          questionEmbedding |-> Undefined, fl |-> <<>>, top |-> <<>>,
          prompt |-> Undefined,
          calls |-> <<"embedContent">>, sent |-> 0]

\* the ranking done on the chunks of docData themselves: each gets its score
\* and the array is sorted where it is
DocRankedInPlace(docData, v, fl) ==
    [docData EXCEPT !.chunks = SortByScore(ScoredChunks(v, docData.chunks, fl))]

\* docData after the ranking: chunks.map builds a new array of new objects
\* ({ ...chunk, score }), and sort reorders that array, its receiver; neither
\* the array docData.chunks nor a chunk in it is written
DocAfterRanking(docData, v, fl) == docData

\* getEmbedding(question) resolves with v: rank, build the prompt, open the stream
GaQueryEmbedded(g, v, fl) ==
    LET top == TopChunks(ScoredChunks(v, g.doc.chunks, fl))
    IN  [g EXCEPT !.pc = "stream",
                  !.doc = DocAfterRanking(g.doc, v, fl),
                  !.questionEmbedding = Some(v),
                  !.fl = fl,
                  !.top = top,
                  !.prompt = Some(RagPrompt(g.question, Context(top))),
                  !.calls = Append(g.calls, "generateContentStream")]

\* getEmbedding(question) rejects: generateAnswer throws
GaQueryFailed(g) == [g EXCEPT !.pc = "thrown"]

\* the stream yields a text: generateAnswer yields it
GaFragment(g) == [g EXCEPT !.sent = g.sent + 1]

\* what generateAnswer yields once the stream is over
Footer(g) ==
    IF IsSummaryRequest(g.question) THEN <<SummarySource>>
    ELSE IF Len(UniquePages(g.top)) > 0 THEN <<SourcesLine(UniquePages(g.top))>>
    ELSE <<>>

\* the stream is over, or has failed and yielded its error text: in both
\* cases generateAnswer goes on to its last yield and returns
GaFinished(g) == [g EXCEPT !.pc = "done"]

YieldsAtEnd(g) == Footer(g)

YieldsAtError(g) == <<StreamErrorText>> \o Footer(g)

(***************************************************************************)
(* The choice of the strategy, on questions that hold a keyword of the      *)
(* pattern or a keyword with one character left out, in several letter      *)
(* cases, with and without text around them.                                *)
(***************************************************************************)
\* the strategy generateAnswer takes for a question
Strategy(question) == IF IsSummaryRequest(question) THEN "Summary" ELSE "Retrieval"

UpperCase(ch) ==
    IF \E i \in 1..26 : LowerCaseLetters[i] = ch
    THEN UpperCaseLetters[CHOOSE i \in 1..26 : LowerCaseLetters[i] = ch]
    ELSE ch

\* word with the character at position u in upper case; u = 0 leaves the
\* word as it is, u = Len(word) + 1 puts all of it in upper case
Cased(word, u) ==
    [i \in 1..Len(word) |->
        IF i = u \/ u = Len(word) + 1 THEN UpperCase(word[i]) ELSE word[i]]

\* word without its character at position i
Without(word, i) == SubSeq(word, 1, i - 1) \o SubSeq(word, i + 1, Len(word))

StrategyWords ==
    SummaryKeywords \cup {Without(kw, i) : kw \in SummaryKeywords, i \in 1..5}

StrategyQuestions ==
    UNION {{pre \o Cased(w, u) \o suf : u \in 0..(Len(w) + 1)} :
              w \in StrategyWords,
              pre \in {<<>>, <<"a", " ">>},
              suf \in {<<>>, <<"?">>}}

StrategyInit ==
    /\ stQuestion \in StrategyQuestions
    /\ stStrategy = Undefined

\* the test of the pattern and the branch on its result
StrategySelect ==
    /\ stStrategy = Undefined
    /\ stStrategy' = Some(Strategy(stQuestion))
    /\ UNCHANGED <<stQuestion, stFrame>>

StrategyNext == StrategySelect

(***************************************************************************)
(* One generateAnswer call read by a plain `for await` loop.                *)
(***************************************************************************)
\* the vectors of the embedding capability, of one width: two whose length
\* is an integer, the vector of zeros, whose score is 0 / 0, and two of one
\* direction whose length is no integer
Vectors == {<<1, 0>>, <<3, 4>>}

ZeroVector == <<0, 0>>

InexactVectors == {<<1, 1>>, <<2, 2>>}

QueryVectors == {<<3, 4>>, <<-1, 0>>, <<0, 1>>}

\* the lists of at most max embeddings out of vs
EmbeddingsUpTo(vs, max) == UNION {[1..n -> vs] : n \in 0..max}

\* a document of n chunks, two to a page, with the embeddings embs; the text
\* of a chunk is shortened to one character
DocOf(embs) ==
    [chunks |-> [k \in 1..Len(embs) |->
                    [id |-> ChunkId((k + 1) \div 2,
                                    IF k % 2 = 1 THEN 0
                                    ELSE DefaultChunkSize - DefaultOverlap),
                     text |-> <<ToString(k)>>,
                     pageNumber |-> (k + 1) \div 2,
                     embedding |-> Some(embs[k])]],
     fullText |-> [k \in 1..Len(embs) |-> ToString(k)]]

Docs ==
    {DocOf(embs) : embs \in EmbeddingsUpTo(Vectors, MaxDocChunks)
                          \cup EmbeddingsUpTo(Vectors \cup {ZeroVector}, MaxNaNDocChunks)
                          \cup EmbeddingsUpTo(Vectors \cup InexactVectors, MaxInexactDocChunks)}

QuestionTlDr == <<"t", "l", ";", "d", "r">>

QuestionWhy == <<"W", "h", "y", "?">>

Questions == {QuestionTlDr, QuestionWhy}

\* a response stream that has produced nothing yet
NoStream == [texts |-> <<>>, status |-> "pending"]

\* a fragment yielded twice
ForwardedTwice(chunk) == <<chunk, chunk>>

\* for await (const chunk of stream) { yield chunk; }: what one chunk of
\* the response makes generateAnswer yield
Forwarded(chunk) == <<chunk>>

AnswerInit ==
    /\ \E q \in Questions, d \in Docs : ga = Some(GaStart(q, d))
    /\ gaYields = <<>>
    /\ gaStream = NoStream

\* the documents generateAnswer is called on again and again: the long ones
\* of the two plain embeddings and the short ones of every embedding
RepeatedDocs ==
    {DocOf(embs) : embs \in EmbeddingsUpTo(Vectors, MaxDocChunks)
                          \cup EmbeddingsUpTo(Vectors \cup {ZeroVector} \cup InexactVectors,
                                              MaxInexactDocChunks)}

AnswerInitRepeated ==
    /\ \E q \in Questions, d \in RepeatedDocs : ga = Some(GaStart(q, d))
    /\ gaYields = <<>>
    /\ gaStream = NoStream

AnswerQueryEmbedded ==
    /\ ga # Undefined
    /\ ga[1].pc = "embedQuery"
    /\ \E v \in QueryVectors :
          \E fl \in FloatsOf(v, ga[1].doc.chunks) : ga' = Some(GaQueryEmbedded(ga[1], v, fl))
    /\ UNCHANGED <<gaYields, gaStream, gaFrame>>

AnswerQueryFailed ==
    /\ ga # Undefined
    /\ ga[1].pc = "embedQuery"
    /\ ga' = Some(GaQueryFailed(ga[1]))
    /\ UNCHANGED <<gaYields, gaStream, gaFrame>>

AnswerFragment ==
    /\ ga # Undefined
    /\ ga[1].pc = "stream"
    /\ ga[1].sent < MaxFragments
    /\ \E f \in StreamTexts :
          /\ ga' = Some(GaFragment(ga[1]))
          /\ gaStream' = [gaStream EXCEPT !.texts = Append(@, f)]
          /\ gaYields' = gaYields \o Forwarded(f)
    /\ UNCHANGED gaFrame

AnswerStreamEnd ==
    /\ ga # Undefined
    /\ ga[1].pc = "stream"
    /\ ga' = Some(GaFinished(ga[1]))
    /\ gaYields' = gaYields \o YieldsAtEnd(ga[1])
    /\ gaStream' = [gaStream EXCEPT !.status = "ended"]
    /\ UNCHANGED gaFrame

AnswerStreamError ==
    /\ ga # Undefined
    /\ ga[1].pc = "stream"
    /\ ga' = Some(GaFinished(ga[1]))
    /\ gaYields' = gaYields \o YieldsAtError(ga[1])
    /\ gaStream' = [gaStream EXCEPT !.status = "failed"]
    /\ UNCHANGED gaFrame

AnswerNext ==
    \/ AnswerQueryEmbedded \/ AnswerQueryFailed \/ AnswerFragment
    \/ AnswerStreamEnd \/ AnswerStreamError

\* vectors of another width than the embeddings of the chunks: a longer
\* and a shorter one
OtherWidthVectors == {<<1, 0, 0>>, <<1>>}

\* getEmbedding(question) resolves with a vector of another width
AnswerQueryEmbeddedOtherWidth ==
    /\ ga # Undefined
    /\ ga[1].pc = "embedQuery"
    /\ \E v \in OtherWidthVectors :
          \E fl \in FloatsOf(v, ga[1].doc.chunks) : ga' = Some(GaQueryEmbedded(ga[1], v, fl))
    /\ UNCHANGED <<gaYields, gaStream, gaFrame>>

\* generateAnswer with an embedding capability that keeps to no width
AnswerNextAnyWidth ==
    \/ AnswerQueryEmbedded \/ AnswerQueryEmbeddedOtherWidth \/ AnswerQueryFailed
    \/ AnswerFragment \/ AnswerStreamEnd \/ AnswerStreamError

\* generateAnswer has returned or thrown and is called again with the same
\* docData, as handleSendMessage does for every turn of a session; the
\* calls made to the capabilities for this document are kept in `calls`
AnswerAgain ==
    /\ ga # Undefined
    /\ ga[1].pc \in {"done", "thrown"}
    /\ Len(ga[1].calls) < MaxCapabilityCalls
    /\ \E q \in Questions :
          ga' = Some([GaStart(q, ga[1].doc) EXCEPT !.calls = ga[1].calls \o @])
    /\ gaYields' = <<>>
    /\ gaStream' = NoStream
    /\ UNCHANGED gaFrame

\* the turns of one session, one generateAnswer call after the other
AnswerNextRepeated ==
    \/ AnswerQueryEmbedded \/ AnswerQueryFailed \/ AnswerFragment
    \/ AnswerStreamEnd \/ AnswerStreamError \/ AnswerAgain

(***************************************************************************)
(* The App component.  A handler runs from the event (or from the promise   *)
(* that resumes it) to its next await as one step, on the state of the      *)
(* last render: React renders after every event before the next one is      *)
(* dispatched.  null is Undefined, a value v is Some(v).                    *)
(***************************************************************************)
FileA == [name |-> <<"a", ".", "p", "d", "f">>]

FileB == [name |-> [i \in 1..21 |-> "b"]]

Files == {FileA, FileB}

\* what processPdf resolves with for a file: a document of one chunk for
\* the first file, of two chunks for the other
AppDocOf(f) == IF f = FileA THEN DocOf(<<<<1, 0>>>>) ELSE DocOf(<<<<1, 0>>, <<3, 4>>>>)

AppQueryVectors == {<<3, 4>>}

\* the text of the fragment that follows `sent` fragments of a stream
AppStreamText(sent) == IF sent = 0 THEN <<"A">> ELSE <<"B">>

QuestionBlank == <<" ">>

\* an input of a tab and a carriage return
QuestionTab == <<"\t", "\r">>

\* the characters String.prototype.trim strips, WhiteSpace and
\* LineTerminator: tab, vertical tab, form feed, space, no-break space, the
\* byte order mark, the other space separators, line feed, carriage return,
\* line separator and paragraph separator.  A character the notation has no
\* escape for is written by its code point
WhiteSpace ==
    {"\t", "U+000B", "\f", " ", "U+00A0", "U+FEFF", "U+1680", "U+2000", "U+2001",
     "U+2002", "U+2003", "U+2004", "U+2005", "U+2006", "U+2007", "U+2008",
     "U+2009", "U+200A", "U+202F", "U+205F", "U+3000"}

LineTerminator == {NewLine, "\r", "U+2028", "U+2029"}

\* String.prototype.trim leaves nothing
TrimIsEmpty(str) == \A i \in 1..Len(str) : str[i] \in WhiteSpace \cup LineTerminator

UserMsg(content) == [role |-> "user", content |-> content]

AssistantMsg(content) == [role |-> "assistant", content |-> content]

\* `I've analyzed **${selectedFile.name}**. What would you like to know?`
InitialMessage(f) ==
    AssistantMsg(<<"I've analyzed **">> \o f.name \o <<"**. What would you like to know?">>)

UploadErrorMsg == AssistantMsg(<<"Unable to process the file. Please try again.">>)

SendErrorMsg ==
    AssistantMsg(<<"Error connecting to Gemini. Please check your network or API key.">>)

\* selectedFile.name.substring(0, 20) + (selectedFile.name.length > 20 ? '...' : '')
ChatName(name) ==
    Slice(name, 0, 20) \o (IF Len(name) > 20 THEN <<".", ".", ".">> ELSE <<>>)

\* the list of chats left as it is
UpdateChatMessagesDropped(cs, id, newMessages) == cs

\* updateCurrentChatMessages(newMessages) of a render whose activeChatId is id
UpdateChatMessages(cs, id, newMessages) ==
    IF id = Undefined THEN cs
    ELSE [k \in 1..Len(cs) |->
            IF cs[k].id = id[1] THEN [cs[k] EXCEPT !.messages = newMessages] ELSE cs[k]]

RemoveAt(seq, i) == SubSeq(seq, 1, i - 1) \o SubSeq(seq, i + 1, Len(seq))

\* the concatenation of strings
RECURSIVE Concat(_)
Concat(strs) == IF Len(strs) = 0 THEN <<>> ELSE strs[1] \o Concat(Tail(strs))

AppInit ==
    /\ file = Undefined
    /\ isProcessing = FALSE
    /\ processedDoc = Undefined
    /\ messages = <<>>
    /\ processingStatus = <<>>
    /\ isGenerating = FALSE
    /\ chats = <<>>
    /\ activeChatId = Undefined
    /\ mounted = TRUE
    /\ uploads = <<>>
    /\ gens = <<>>
    /\ now = 1
    /\ created = 0
    /\ asked = {}

\* createNewChat
CreateNewChat ==
    /\ mounted
    /\ file' = Undefined
    /\ processedDoc' = Undefined
    /\ messages' = <<>>
    /\ activeChatId' = Undefined
    /\ processingStatus' = <<>>
    /\ UNCHANGED <<isProcessing, isGenerating, chats, mounted, uploads, gens, now,
                   created, asked, appFrame>>

\* loadChat without its first line
LoadChatNeverReturnsEarly == FALSE

\* if (isGenerating) return
LoadChatReturnsEarly == isGenerating

\* loadChat(chat), from the list of chats
LoadChat ==
    /\ mounted
    /\ \E k \in 1..Len(chats) :
          IF LoadChatReturnsEarly
          THEN UNCHANGED <<file, processedDoc, messages, activeChatId, processingStatus>>
          ELSE /\ activeChatId' = Some(chats[k].id)
               /\ file' = Some(chats[k].file)
               /\ processedDoc' = Some(chats[k].processedDoc)
               /\ messages' = chats[k].messages
               /\ processingStatus' = <<"Ready">>
    /\ UNCHANGED <<isProcessing, isGenerating, chats, mounted, uploads, gens, now,
                   created, asked, appFrame>>

\* the transcript a handler is called on, kept with the call to compare
\* with what the call leaves
StateOnCall == [messages |-> messages]

\* the pages of a file: the page of its last chunk is its last page
AppPageCount(f) == AppDocOf(f).chunks[Len(AppDocOf(f).chunks)].pageNumber

\* the statuses processPdf has reported last when it awaits, in their order:
\* while the file is read, while a page is parsed, while the chunks are
\* embedded.  The files have one page and one batch of chunks; the stage of
\* an upload is the place in this list of the status it reported last
UploadStatuses(f) ==
    <<StatusLoading,
      StatusParsing(1, AppPageCount(f)),
      StatusEmbedding(0, Len(AppDocOf(f).chunks))>>

\* processPdf awaits the embeddings of its chunks: it resolves when they have
\* settled, and from this await on it does not reject
EmbeddingStage == Len(UploadStatuses(FileA))

\* handleFileSelect(selectedFile) up to `await processPdf`; FileUpload is
\* rendered only while file is null; processPdf reports 'Loading PDF...'
\* before its first await
HandleFileSelect ==
    /\ mounted
    /\ file = Undefined
    /\ created + Len(uploads) < MaxChats
    /\ \E f \in Files :
          /\ file' = Some(f)
          /\ uploads' = Append(uploads, [file |-> f, before |-> StateOnCall, stage |-> 1])
    /\ isProcessing' = TRUE
    /\ processingStatus' = StatusLoading
    /\ messages' = <<>>
    /\ UNCHANGED <<processedDoc, isGenerating, chats, activeChatId, mounted, gens, now,
                   created, asked, appFrame>>

\* a processPdf call that is running goes on to a later await: the status
\* it reported last before that await is the processingStatus
UploadProgress ==
    /\ mounted
    /\ \E i \in 1..Len(uploads) :
          \E j \in (uploads[i].stage + 1)..EmbeddingStage :
              /\ uploads' = [uploads EXCEPT ![i].stage = j]
              /\ processingStatus' = UploadStatuses(uploads[i].file)[j]
    /\ UNCHANGED <<file, isProcessing, processedDoc, messages, isGenerating, chats,
                   activeChatId, mounted, gens, now,
                   created, asked, appFrame>>

\* the new chat session of an upload: its id is the reading of the clock by
\* Date.now(), its date the later reading by new Date()
NewChat(f, docData, t, date) ==
    [id |-> NumToStr(t), name |-> ChatName(f.name), date |-> date, file |-> f,
     processedDoc |-> docData, messages |-> <<InitialMessage(f)>>]

\* what a reading of the clock can return: the millisecond of the reading
\* before it, or a later one
ClockFrom(last) == last..MaxClock

\* Date.now()
DateNow == ClockFrom(now)

\* processPdf resolves: the rest of the try block and the finally
UploadResolved ==
    /\ mounted
    /\ \E i \in 1..Len(uploads), t \in DateNow :
          \E date \in ClockFrom(t) :
              LET f == uploads[i].file
                  d == AppDocOf(f)
              IN  /\ uploads[i].stage = EmbeddingStage
                  /\ processedDoc' = Some(d)
                  /\ messages' = <<InitialMessage(f)>>
                  /\ chats' = <<NewChat(f, d, t, date)>> \o chats
                  /\ activeChatId' = Some(NumToStr(t))
                  /\ uploads' = RemoveAt(uploads, i)
                  /\ now' = date
    /\ created' = created + 1
    /\ processingStatus' = <<"Ready">>
    /\ isProcessing' = FALSE
    /\ UNCHANGED <<file, isGenerating, mounted, gens, asked, appFrame>>

\* processPdf rejects: the catch block and the finally
UploadRejected ==
    /\ mounted
    /\ \E i \in 1..Len(uploads) :
          /\ uploads[i].stage < EmbeddingStage
          /\ uploads' = RemoveAt(uploads, i)
    /\ processingStatus' = <<"Error">>
    /\ messages' = <<UploadErrorMsg>>
    /\ file' = Undefined
    /\ isProcessing' = FALSE
    /\ UNCHANGED <<processedDoc, isGenerating, chats, activeChatId, mounted, gens, now,
                   created, asked, appFrame>>

\* handleSubmit of ChatInterface: if (!input.trim() || isLoading) return
SubmitGuard(input) == ~TrimIsEmpty(input) /\ ~isGenerating

\* handleSendMessage: if (!message.trim() || !processedDoc || isGenerating) return
SendGuard(message) == ~TrimIsEmpty(message) /\ processedDoc # Undefined /\ ~isGenerating

\* the flag left as it was
GeneratingNotSet == isGenerating

\* setIsGenerating(true)
GeneratingAfterSend == TRUE

\* the form is submitted: handleSubmit, then handleSendMessage up to the
\* first await of its stream; ChatInterface is rendered only while file is
\* set.  Submissions are tried while the transcript is short and whenever a
\* generation is in flight, with an input of whitespace or one of the MaxAsked
\* questions of the run
HandleSubmit ==
    /\ mounted
    /\ file # Undefined
    /\ Len(messages) < MaxMessages \/ Len(gens) > 0
    /\ \E input \in Questions \cup {QuestionBlank, QuestionTab} :
          /\ input \in Questions => Cardinality(asked \cup {input}) <= MaxAsked
          /\ IF SubmitGuard(input) /\ SendGuard(input)
             THEN LET messagesWithUser == Append(messages, UserMsg(input))
                  IN  /\ messages' = Append(messagesWithUser, AssistantMsg(<<>>))
                      /\ chats' = UpdateChatMessages(chats, activeChatId, messagesWithUser)
                      /\ isGenerating' = GeneratingAfterSend
                      /\ gens' = Append(gens,
                             [message |-> input,
                              messagesWithUser |-> messagesWithUser,
                              activeChatId |-> activeChatId,
                              g |-> GaStart(input, processedDoc[1]),
                              fullResponse |-> <<>>])
                      /\ asked' = asked \cup {input}
             ELSE UNCHANGED <<messages, chats, isGenerating, gens, asked>>
    /\ UNCHANGED <<file, isProcessing, processedDoc, processingStatus, activeChatId,
                   mounted, uploads, now, created, appFrame>>

\* the updater of setMessages in the loop: the last message gets the text
\* when it is the assistant's
WithLastContent(prev, content) ==
    IF prev[Len(prev)].role = "assistant"
    THEN [prev EXCEPT ![Len(prev)] = AssistantMsg(content)]
    ELSE prev

\* the text accumulated from one fragment only
AccumulateLastOnly(fullResponse, yields) ==
    IF Len(yields) = 0 THEN fullResponse ELSE yields[Len(yields)]

\* the new fragments put in front of the text
AccumulatePrepend(fullResponse, yields) == Concat(yields) \o fullResponse

\* fullResponse += chunk, for the fragments of one step
Accumulate(fullResponse, yields) == fullResponse \o Concat(yields)

\* the loop body for the fragments `yields` of generation i.  The updater
\* reads lastMsg.role of updated[updated.length - 1]: with no message it
\* throws while React renders, and React unmounts the tree
ReceiveFragments(i, yields) ==
    IF Len(yields) > 0 /\ messages = <<>>
    THEN /\ mounted' = FALSE
         /\ UNCHANGED messages
    ELSE /\ mounted' = mounted
         /\ messages' = IF Len(yields) = 0 THEN messages
                        ELSE WithLastContent(messages, Accumulate(gens[i].fullResponse, yields))

\* getEmbedding(question) resolves inside generateAnswer
GenQueryEmbedded ==
    /\ mounted
    /\ \E i \in 1..Len(gens), v \in AppQueryVectors :
          /\ gens[i].g.pc = "embedQuery"
          /\ \E fl \in FloatsOf(v, gens[i].g.doc.chunks) :
                gens' = [gens EXCEPT ![i].g = GaQueryEmbedded(gens[i].g, v, fl)]
    /\ UNCHANGED <<file, isProcessing, processedDoc, messages, processingStatus,
                   isGenerating, chats, activeChatId, mounted, uploads, now,
                   created, asked, appFrame>>

\* generateAnswer throws: the catch block and the finally
GenQueryFailed ==
    /\ mounted
    /\ \E i \in 1..Len(gens) :
          /\ gens[i].g.pc = "embedQuery"
          /\ LET messagesWithError == Append(gens[i].messagesWithUser, SendErrorMsg)
             IN  /\ messages' = messagesWithError
                 /\ chats' = UpdateChatMessages(chats, gens[i].activeChatId, messagesWithError)
          /\ gens' = RemoveAt(gens, i)
    /\ isGenerating' = FALSE
    /\ UNCHANGED <<file, isProcessing, processedDoc, processingStatus, activeChatId,
                   mounted, uploads, now,
                   created, asked, appFrame>>

\* a fragment of the stream arrives
GenFragment ==
    /\ mounted
    /\ \E i \in 1..Len(gens) :
          LET f == Forwarded(AppStreamText(gens[i].g.sent))
          IN  /\ gens[i].g.pc = "stream"
              /\ gens[i].g.sent < MaxFragments
              /\ ReceiveFragments(i, f)
              /\ gens' = [gens EXCEPT ![i].g = GaFragment(gens[i].g),
                                      ![i].fullResponse = Accumulate(gens[i].fullResponse, f)]
    /\ UNCHANGED <<file, isProcessing, processedDoc, processingStatus, isGenerating,
                   chats, activeChatId, uploads, now,
                   created, asked, appFrame>>

\* the last fragments of generation i arrive and its loop ends: the history
\* gets the full response, and the finally
FinishGeneration(i, yields) ==
    /\ ReceiveFragments(i, yields)
    /\ IF mounted'
       THEN /\ chats' = UpdateChatMessages(chats, gens[i].activeChatId,
                          Append(gens[i].messagesWithUser,
                                 AssistantMsg(Accumulate(gens[i].fullResponse, yields))))
            /\ isGenerating' = FALSE
       ELSE UNCHANGED <<chats, isGenerating>>
    /\ gens' = RemoveAt(gens, i)

\* the stream ends
GenStreamEnd ==
    /\ mounted
    /\ \E i \in 1..Len(gens) :
          /\ gens[i].g.pc = "stream"
          /\ FinishGeneration(i, YieldsAtEnd(gens[i].g))
    /\ UNCHANGED <<file, isProcessing, processedDoc, processingStatus, activeChatId,
                   uploads, now,
                   created, asked, appFrame>>

\* the stream fails: getCompletionStream yields its error text and ends
GenStreamError ==
    /\ mounted
    /\ \E i \in 1..Len(gens) :
          /\ gens[i].g.pc = "stream"
          /\ FinishGeneration(i, YieldsAtError(gens[i].g))
    /\ UNCHANGED <<file, isProcessing, processedDoc, processingStatus, activeChatId,
                   uploads, now,
                   created, asked, appFrame>>

\* prev.filter(c => c.id !== chatId)
ChatsWithout(cs, chatId) == SelectSeq(cs, LAMBDA c : c.id # chatId)

\* handleDeleteChat(e, chatId), from the list of chats
HandleDeleteChat ==
    /\ mounted
    /\ \E k \in 1..Len(chats) :
          /\ chats' = ChatsWithout(chats, chats[k].id)
          /\ IF activeChatId = Some(chats[k].id)
             THEN /\ file' = Undefined
                  /\ processedDoc' = Undefined
                  /\ messages' = <<>>
                  /\ activeChatId' = Undefined
                  /\ processingStatus' = <<>>
             ELSE UNCHANGED <<file, processedDoc, messages, activeChatId, processingStatus>>
    /\ UNCHANGED <<isProcessing, isGenerating, mounted, uploads, gens, now,
                   created, asked, appFrame>>

AppNext ==
    \/ CreateNewChat \/ LoadChat \/ HandleFileSelect \/ UploadProgress
    \/ UploadResolved \/ UploadRejected \/ HandleSubmit
    \/ GenQueryEmbedded \/ GenQueryFailed \/ GenFragment \/ GenStreamEnd
    \/ GenStreamError \/ HandleDeleteChat

\* a subsystem that is not running
ChunkIdle ==
    /\ ckPages = <<>> /\ ckSize = DefaultChunkSize /\ ckOverlap = DefaultOverlap
    /\ ckIdx = 1 /\ ckStart = 0 /\ ckChunks = <<>> /\ ckPc = "idle"

PdfIdle ==
    /\ ppPages = <<>> /\ ppChunks = <<>> /\ ppI = 0 /\ ppPending = {}
    /\ ppSettled = {} /\ ppWarned = <<>> /\ ppStatus = <<>> /\ ppFullText = <<>>
    /\ ppResult = Undefined /\ ppPc = "idle"

AnswerIdle == ga = Undefined /\ gaYields = <<>> /\ gaStream = NoStream

AppIdle == AppInit

StrategyIdle == stQuestion = <<>> /\ stStrategy = Undefined

InitChunk == ChunkInit /\ PdfIdle /\ AnswerIdle /\ AppIdle /\ StrategyIdle

SpecChunk == InitChunk /\ [][ChunkNext]_vars

InitPdf == PdfInit /\ ChunkIdle /\ AnswerIdle /\ AppIdle /\ StrategyIdle

SpecPdf == InitPdf /\ [][PdfNext]_vars

InitAnswer == AnswerInit /\ ChunkIdle /\ PdfIdle /\ AppIdle /\ StrategyIdle

SpecAnswer == InitAnswer /\ [][AnswerNext]_vars

SpecAnswerAnyWidth == InitAnswer /\ [][AnswerNextAnyWidth]_vars

InitAnswerRepeated ==
    AnswerInitRepeated /\ ChunkIdle /\ PdfIdle /\ AppIdle /\ StrategyIdle

SpecAnswerRepeated == InitAnswerRepeated /\ [][AnswerNextRepeated]_vars

InitApp == AppInit /\ ChunkIdle /\ PdfIdle /\ AnswerIdle /\ StrategyIdle

SpecApp == InitApp /\ [][AppNext]_vars

\* the App with an embedding call that settles and a generation stream that
\* is finite: a pending getEmbedding resolves or rejects, and a stream that
\* is being read ends or fails
SpecAppSettling ==
    /\ InitApp
    /\ [][AppNext]_vars
    /\ WF_vars(GenQueryFailed \/ GenQueryEmbedded)
    /\ WF_vars(GenStreamEnd \/ GenStreamError)

InitStrategy == StrategyInit /\ ChunkIdle /\ PdfIdle /\ AnswerIdle /\ AppIdle

SpecStrategy == InitStrategy /\ [][StrategyNext]_vars

(***************************************************************************)
(* Reading a chunk back: the page's chunks, and the start offset its id     *)
(* carries.                                                                 *)
(***************************************************************************)
ChunksOfPage(chunks, page) == SelectSeq(chunks, LAMBDA c : c.pageNumber = page)

DigitVal(ch) == CHOOSE d \in 0..9 : DigitChar(d) = ch

RECURSIVE StrToNat(_)
StrToNat(str) ==
    IF Len(str) = 0 THEN 0
    ELSE 10 * StrToNat(SubSeq(str, 1, Len(str) - 1)) + DigitVal(str[Len(str)])

StrToNum(str) ==
    IF Len(str) > 0 /\ str[1] = "-" THEN 0 - StrToNat(Tail(str)) ELSE StrToNat(str)

\* the start offset in the id `${page}-${start}`: what follows the first "-"
IdStart(id) ==
    LET k == CHOOSE j \in 1..Len(id) : id[j] = "-" /\ \A h \in 1..(j - 1) : id[h] # "-"
    IN  StrToNum(SubSeq(id, k + 1, Len(id)))

\* the window [start, end) of a chunk
ChunkStart(c) == IdStart(c.id)

ChunkEnd(c) == IdStart(c.id) + Len(c.text)

ValidConfig == 0 < ckOverlap /\ ckOverlap < ckSize

(***************************************************************************)
(* C1: every page whose text is shorter than chunkSize gets exactly one     *)
(* chunk, and that chunk's text is the whole page text.  Stated here for    *)
(* the pages that have text (0 < len < chunkSize, overlap < chunkSize); a   *)
(* page of length 0 gets no chunk at all (ChunkSkipPage).                   *)
(***************************************************************************)
C1_ShortPageOneChunk ==
    (ckPc = "done" /\ ckOverlap < ckSize) =>
        \A i \in 1..Len(ckPages) :
            (0 < Len(ckPages[i].text) /\ Len(ckPages[i].text) < ckSize) =>
                LET cs == ChunksOfPage(ckChunks, ckPages[i].page)
                IN  Len(cs) = 1 /\ cs[1].text = ckPages[i].text

(***************************************************************************)
(* C2: with 0 < overlap < chunkSize, the windows of a page's chunks cover   *)
(* every character position of the page, and the last chunk of the page     *)
(* ends at the length of its text.                                          *)
(***************************************************************************)
C2_WindowsCoverPage ==
    (ckPc = "done" /\ ValidConfig) =>
        \A i \in 1..Len(ckPages) :
            LET cs == ChunksOfPage(ckChunks, ckPages[i].page)
                text == ckPages[i].text
            IN  /\ \A pos \in 1..Len(text) :
                       \E k \in 1..Len(cs) :
                           /\ ChunkStart(cs[k]) < pos
                           /\ pos <= ChunkEnd(cs[k])
                           /\ cs[k].text[pos - ChunkStart(cs[k])] = text[pos]
                /\ Len(cs) > 0 => ChunkEnd(cs[Len(cs)]) = Len(text)

\* a finished run in which a page needed three windows or more
C2_Witness ==
    /\ ckPc = "done"
    /\ ValidConfig
    /\ \E i \in 1..Len(ckPages) : Len(ChunksOfPage(ckChunks, ckPages[i].page)) >= 3

(***************************************************************************)
(* C3: chunkText terminates on every input; with chunkSize - overlap <= 0   *)
(* it refuses the configuration instead of emitting chunks without end.     *)
(* A run that ends emits at most one chunk per character of a page.         *)
(***************************************************************************)
C3_BadConfigEmitsNothingUnbounded ==
    (ckSize - ckOverlap <= 0) =>
        \A i \in 1..Len(ckPages) :
            Len(ChunksOfPage(ckChunks, ckPages[i].page)) <= Len(ckPages[i].text)

(***************************************************************************)
(* C8: whatever embedding calls fail, processPdf does not reject and        *)
(* returns exactly the chunks whose embedding succeeded, in their original  *)
(* order, each with its embedding; every call of every batch is made and    *)
(* settles, whatever failed before it.                                      *)
(***************************************************************************)
Range(f) == {f[i] : i \in DOMAIN f}

WithoutEmbedding(c) == [id |-> c.id, text |-> c.text, pageNumber |-> c.pageNumber]

C8_OnlyEmbeddedChunksKept ==
    /\ ppPc = "failed" => (ppChunks = <<>> /\ ppSettled = {} /\ ppWarned = <<>>)
    /\ ppPc = "done" =>
          LET orig == chunkText(ppPages, DefaultChunkSize, DefaultOverlap)
              kept == ppResult[1].chunks
          IN  /\ Len(kept) = Len(orig) - Len(ppWarned)
              /\ [k \in 1..Len(kept) |-> WithoutEmbedding(kept[k])]
                   = SelectSeq(orig, LAMBDA c : c.id \notin Range(ppWarned))
              /\ \A k \in 1..Len(kept) : kept[k].embedding # Undefined
              /\ ppSettled = 1..Len(orig)

\* 2 of 7 chunks failed, one in each batch, and 5 chunks are returned
C8_Witness ==
    /\ ppPc = "done"
    /\ Len(ppChunks) = 7
    /\ Len(ppWarned) = 2
    /\ Len(ppResult[1].chunks) = 5
    /\ ppChunks[2].embedding = Undefined
    /\ ppChunks[6].embedding = Undefined

(***************************************************************************)
(* C9: at most batchSize embedding calls are outstanding, and a call for a  *)
(* chunk is outstanding or settled only when every call of every earlier    *)
(* batch has settled; inside a batch the calls settle in any order.         *)
(***************************************************************************)
BatchNo(k) == (k - 1) \div batchSize

C9_BatchesInIndexOrder ==
    /\ Cardinality(ppPending) <= batchSize
    /\ ppPending \cap ppSettled = {}
    /\ \A k \in ppPending \cup ppSettled :
          \A j \in 1..Len(ppChunks) :
              BatchNo(j) < BatchNo(k) => j \in ppSettled

\* the second batch is outstanding and a later chunk of it settled first
C9_Witness ==
    /\ ppPc = "embed"
    /\ \E j \in ppPending, k \in ppSettled :
          j < k /\ BatchNo(j) = 1 /\ BatchNo(k) = 1

(***************************************************************************)
(* C10: on the retrieval path the ranked chunks the prompt is built from    *)
(* are min(8, number of chunks) chunks of the document, in non-increasing   *)
(* order of score, and no chunk left out scores strictly higher than a      *)
(* chunk taken.                                                             *)
(***************************************************************************)
\* score a is strictly greater than score b; NaN is not greater than a
\* number, nor a number than NaN
ScoreAbove(a, b) ==
    /\ ~a.nan /\ ~b.nan
    /\ LET l == SignedSquare(a.dot) * (b.normA * b.normB)
           r == SignedSquare(b.dot) * (a.normA * a.normB)
       IN  l > r \/ (l = r /\ a.ulps > b.ulps)

C10_TopChunksRanked ==
    (ga # Undefined /\ ga[1].questionEmbedding # Undefined) =>
        LET g == ga[1]
            q == g.questionEmbedding[1]
            top == g.top
            chunks == g.doc.chunks
            taken == {top[k].id : k \in 1..Len(top)}
        IN  /\ Len(top) = Min(8, Len(chunks))
            /\ Cardinality(taken) = Len(top)
            /\ \A k \in 1..Len(top) :
                  \E j \in 1..Len(chunks) :
                      /\ chunks[j].id = top[k].id
                      /\ chunks[j].pageNumber = top[k].pageNumber
                      /\ chunks[j].text = top[k].text
                      /\ top[k].score = cosineSimilarity(q, chunks[j].embedding[1], g.fl)
            /\ \A j, k \in 1..Len(top) : j < k => ~ScoreAbove(top[k].score, top[j].score)
            /\ \A j \in 1..Len(chunks) :
                  chunks[j].id \notin taken =>
                      \A k \in 1..Len(top) :
                          ~ScoreAbove(cosineSimilarity(q, chunks[j].embedding[1], g.fl),
                                      top[k].score)
            /\ g.prompt = Some(RagPrompt(g.question, Context(top)))

\* a generation whose session is no longer the one on display
Overtaken(gen) == gen.activeChatId # activeChatId

\* the entry of the list of chats that is on display
ActiveChat == SelectSeq(chats, LAMBDA c : Some(c.id) = activeChatId)

\* a step of a generation in flight: a fragment, its end or its failure
GenerationStep == Len(gens) > 0 /\ gens' # gens /\ Len(gens') <= Len(gens)

\* C4: whatever a generation produces after a new chat, a deletion of the
\* active chat or a new file has overtaken it (a fragment, its final
\* response, its error message) leaves the displayed transcript and the
\* session on display as they are
C4_OvertakenGenerationDiscarded ==
    [][(GenerationStep /\ \A i \in 1..Len(gens) : Overtaken(gens[i]))
          => (messages' = messages /\ ActiveChat' = ActiveChat)]_vars

\* upload i completes or fails in this step
UploadSettles(i) == i \in 1..Len(uploads) /\ uploads' = RemoveAt(uploads, i)

\* C5: when processPdf resolves or rejects for a file that is no longer the
\* selected one, processedDoc, messages, file, activeChatId and the list of
\* chats stay as they are
C5_LateUploadIgnored ==
    [][\A i \in 1..Len(uploads) :
          (UploadSettles(i) /\ file # Some(uploads[i].file))
             => UNCHANGED <<processedDoc, messages, file, activeChatId, chats>>]_vars

\* C6: at most one answer generation is in flight, and while it is the flag
\* that rejects further submissions is set
C6_OneGenerationInFlight ==
    /\ Len(gens) <= 1
    /\ Len(gens) = 1 => isGenerating

\* a generation is streaming into the session on display, where a further
\* submission is tried
C6_Witness ==
    /\ mounted
    /\ Len(gens) = 1
    /\ ~Overtaken(gens[1])
    /\ gens[1].fullResponse # <<>>
    /\ file # Undefined
    /\ processedDoc # Undefined
    /\ ENABLED HandleSubmit

IsPrefix(p, str) == Len(p) <= Len(str) /\ SubSeq(str, 1, Len(p)) = p

\* the transcript while generation gen streams into it
TranscriptOf(gen) == Append(gen.messagesWithUser, AssistantMsg(gen.fullResponse))

\* C7: when the stream fails after some fragments and the transcript is the
\* one of this turn, the turn ends with the assistant's message showing
\* those fragments followed by the error text, in the transcript and in the
\* stored session; the tree stays mounted and a next submission passes the
\* guard
C7_PartialAnswerKeptOnStreamError ==
    [][(/\ Len(gens) = 1
        /\ gens[1].fullResponse # <<>>
        /\ ~Overtaken(gens[1])
        /\ messages = TranscriptOf(gens[1])
        /\ gens' = <<>>
        /\ GenStreamError)
          => (/\ Len(messages') = Len(messages)
              /\ SubSeq(messages', 1, Len(messages) - 1) = gens[1].messagesWithUser
              /\ messages'[Len(messages)].role = "assistant"
              /\ IsPrefix(gens[1].fullResponse \o StreamErrorText,
                          messages'[Len(messages)].content)
              /\ \A k \in 1..Len(ActiveChat') : ActiveChat'[k].messages = messages'
              /\ mounted'
              /\ ~isGenerating'
              /\ processedDoc' = processedDoc)]_vars

\* a turn has ended on a stream that failed after a fragment
C7_Witness ==
    /\ mounted
    /\ gens = <<>>
    /\ ~isGenerating
    /\ Len(messages) > 0
    /\ messages[Len(messages)].role = "assistant"
    /\ IsPrefix(AppStreamText(0) \o StreamErrorText, messages[Len(messages)].content)

(***************************************************************************)
(* Reading a citation fragment back: the page numbers it lists.             *)
(***************************************************************************)
RECURSIVE ParsePages(_)
\* the numbers of a list "n1, n2, ..."
ParsePages(body) ==
    IF Len(body) = 0 THEN <<>>
    ELSE LET commas == {j \in 1..Len(body) : body[j] = ","}
             c == IF commas = {} THEN Len(body) + 1
                  ELSE CHOOSE j \in commas : \A h \in commas : j <= h
         IN  <<StrToNum(SubSeq(body, 1, c - 1))>> \o
             ParsePages(SubSeq(body, c + 2, Len(body)))

\* frag reads "\n\n**Sources:** Page[s] n1, n2, ...": it lists exactly the
\* pages of the set, each once, in ascending order, and says Pages exactly
\* when it lists more than one
CitesPages(frag, pages) ==
    LET plural == Len(frag) >= 4 /\ frag[4] = "s"
        h == IF plural THEN 5 ELSE 4
        body == SubSeq(frag, h + 1, Len(frag))
        cited == ParsePages(body)
    IN  /\ Len(frag) > h
        /\ SubSeq(frag, 1, 3) = <<NewLine, NewLine, "**Sources:** Page">>
        /\ frag[h] = " "
        /\ plural <=> Cardinality(pages) > 1
        /\ body = Join([k \in 1..Len(cited) |-> NumToStr(cited[k])], <<",", " ">>)
        /\ \A k \in 1..(Len(cited) - 1) : cited[k] < cited[k + 1]
        /\ Range(cited) = pages

\* a Retrieval turn whose generated stream has ended
RetrievalEnded ==
    /\ ga # Undefined
    /\ ~IsSummaryRequest(ga[1].question)
    /\ ga[1].pc = "done"
    /\ gaStream.status = "ended"

TopPages == {ga[1].top[k].pageNumber : k \in 1..Len(ga[1].top)}

\* the fragments received are those of the stream and one more, the citation
OneCitationLast ==
    /\ Len(gaYields) = Len(gaStream.texts) + 1
    /\ SubSeq(gaYields, 1, Len(gaStream.texts)) = gaStream.texts
    /\ CitesPages(gaYields[Len(gaYields)], TopPages)

\* C11, as claimed: after the stream of a Retrieval turn ends, exactly one
\* more fragment is yielded and it cites the distinct pages of the top
\* chunks in ascending order, for every document, one without chunks included
C11_OneCitationForEveryDocument == RetrievalEnded => OneCitationLast

\* C11, amended: the citation is yielded when chunks were retrieved; for a
\* document without chunks nothing follows the fragments of the stream
C11_OneCitationWhenChunksRetrieved ==
    RetrievalEnded =>
        IF Len(ga[1].top) > 0 THEN OneCitationLast ELSE gaYields = gaStream.texts

\* eight chunks retrieved, the first of them from the last page: the
\* citation lists several pages in another order than the ranking
C11_Witness ==
    /\ RetrievalEnded
    /\ Len(ga[1].top) = TopK
    /\ ga[1].top[1].pageNumber > ga[1].top[2].pageNumber
    /\ Cardinality(TopPages) > 1
    /\ Len(gaStream.texts) > 0
    /\ OneCitationLast

(***************************************************************************)
(* C12: a Summary turn never calls the embedding capability and ranks       *)
(* nothing; what it yields is the fragments of the generation stream in     *)
(* their order (the error text of a failed stream among them) and then one  *)
(* last fragment, the 'Full Document Analysis' marker.                      *)
(***************************************************************************)
SummaryTurn == ga # Undefined /\ IsSummaryRequest(ga[1].question)

C12_SummaryForwardsThenMarker ==
    SummaryTurn =>
        /\ ga[1].pc \in {"stream", "done"}
        /\ ga[1].calls = <<"generateContentStream">>
        /\ ga[1].questionEmbedding = Undefined
        /\ ga[1].top = <<>>
        /\ ga[1].prompt # Undefined
        /\ ga[1].prompt[1].kind = "summary"
        /\ ga[1].prompt[1].content = ga[1].doc.fullText
        /\ ga[1].pc = "stream" => gaYields = gaStream.texts
        /\ ga[1].pc = "done" =>
              gaYields = gaStream.texts
                           \o (IF gaStream.status = "failed" THEN <<StreamErrorText>> ELSE <<>>)
                           \o <<(<<NewLine, NewLine, "**Source:** Full Document Analysis">>)>>

\* a Summary turn on a document with chunks has ended after two different
\* fragments
C12_Witness ==
    /\ SummaryTurn
    /\ ga[1].pc = "done"
    /\ gaStream.status = "ended"
    /\ Len(ga[1].doc.chunks) > 0
    /\ Len(gaStream.texts) = 2
    /\ gaStream.texts[1] # gaStream.texts[2]
    /\ Len(gaYields) = 3

(***************************************************************************)
(* C13: the strategy is Summary exactly when the question holds, whatever   *)
(* the case of its letters, one of the five keywords as a substring, and    *)
(* Retrieval otherwise; putting letters of the question in the other case   *)
(* does not change the strategy.                                            *)
(***************************************************************************)
ClaimedKeywords ==
    { <<"s", "u", "m", "m", "a", "r">>,
      <<"o", "v", "e", "r", "v", "i", "e", "w">>,
      <<"t", "l", ";", "d", "r">>,
      <<"d", "i", "g", "e", "s", "t">>,
      <<"d", "e", "s", "c", "r", "i", "b", "e", " ", "t", "h", "e", " ",
        "d", "o", "c", "u", "m", "e", "n", "t">> }

\* the same character, or the two cases of one letter
SameLetter(c, d) ==
    c = d \/ \E i \in 1..26 : {c, d} = {LowerCaseLetters[i], UpperCaseLetters[i]}

HoldsKeyword(question) ==
    \E kw \in ClaimedKeywords :
        \E i \in 0..(Len(question) - Len(kw)) :
            \A j \in 1..Len(kw) : SameLetter(question[i + j], kw[j])

\* the question in other letter cases: all upper, all lower, one letter changed
OtherCases(question) ==
    {Cased(question, u) : u \in 1..(Len(question) + 1)}
      \cup {FoldStr(question)}
      \cup {[question EXCEPT ![u] = FoldCase(@)] : u \in 1..Len(question)}

C13_StrategyByKeywordAnyCase ==
    /\ stStrategy # Undefined =>
          /\ stStrategy[1] \in {"Summary", "Retrieval"}
          /\ stStrategy[1] = "Summary" <=> HoldsKeyword(stQuestion)
          /\ \A other \in OtherCases(stQuestion) : Strategy(other) = stStrategy[1]
    /\ stQuestion \in StrategyQuestions => ENABLED StrategySelect \/ stStrategy # Undefined

\* a keyword in upper case inside a longer question is taken as Summary
C13_Witness ==
    /\ stStrategy = Some("Summary")
    /\ Len(stQuestion) > 8
    /\ \A i \in 3..8 : stQuestion[i] # FoldCase(stQuestion[i])
    /\ stQuestion[1] = "a"

(***************************************************************************)
(* C14: the text a turn accumulates is the fragments of the generation      *)
(* stream in their order, each once; when the stream ends, the message      *)
(* written to the stored session, and to the transcript when it is still    *)
(* the one of this turn, holds that text followed by the source fragment.   *)
(***************************************************************************)
\* the texts the stream of a generation has produced so far, joined
StreamTextOf(gen) == Concat([k \in 1..gen.g.sent |-> AppStreamText(k - 1)])

AnswerOf(gen) == StreamTextOf(gen) \o Concat(Footer(gen.g))

C14_FragmentsAccumulatedInOrder ==
    /\ [](\A i \in 1..Len(gens) : gens[i].fullResponse = StreamTextOf(gens[i]))
    /\ [][(Len(gens) = 1 /\ gens' = <<>> /\ mounted' /\ GenStreamEnd)
            => LET gen == gens[1]
                   final == Append(gen.messagesWithUser, AssistantMsg(AnswerOf(gen)))
               IN  /\ \A k \in 1..Len(chats') :
                          Some(chats'[k].id) = gen.activeChatId => chats'[k].messages = final
                   /\ messages = TranscriptOf(gen) => messages' = final]_vars

\* a turn has ended after two fragments: transcript and stored session hold
\* both, in order, and the source fragment
C14_Witness ==
    /\ mounted
    /\ gens = <<>>
    /\ Len(messages) = 3
    /\ messages[3] = AssistantMsg(AppStreamText(0) \o AppStreamText(1) \o SummarySource)
    /\ Len(ActiveChat) = 1
    /\ ActiveChat[1].messages = messages

(***************************************************************************)
(* C15: when the embedding of the question fails, no generation stream has  *)
(* been requested, and the turn ends with the transcript holding what it    *)
(* held before the question, the user's message and after it one assistant  *)
(* message, the error; the stored session of the turn holds the same, and   *)
(* it is the session on display unless the turn was overtaken.              *)
(***************************************************************************)
C15_QueryEmbeddingFailureShown ==
    [][(Len(gens) = 1 /\ gens' = <<>> /\ GenQueryFailed)
          => LET gen == gens[1]
                 before == SubSeq(gen.messagesWithUser, 1, Len(gen.messagesWithUser) - 1)
             IN  /\ ~IsSummaryRequest(gen.message)
                 /\ gen.g.calls = <<"embedContent">>
                 /\ gens' = <<>>
                 /\ Len(messages') = Len(before) + 2
                 /\ SubSeq(messages', 1, Len(before)) = before
                 /\ messages'[Len(before) + 1] = [role |-> "user", content |-> gen.message]
                 /\ messages'[Len(before) + 2].role = "assistant"
                 /\ messages'[Len(before) + 2].content
                      = <<"Error connecting to Gemini. Please check your network or API key.">>
                 /\ \A k \in 1..Len(chats') :
                        Some(chats'[k].id) = gen.activeChatId => chats'[k].messages = messages'
                 /\ ~Overtaken(gen) =>
                        /\ Len(ActiveChat') >= 1
                        /\ \A k \in 1..Len(ActiveChat') :
                               ActiveChat'[k].messages = messages']_vars

\* a Retrieval turn has ended on a failed embedding of its question
C15_Witness ==
    /\ mounted
    /\ gens = <<>>
    /\ ~isGenerating
    /\ Len(messages) = 3
    /\ messages[1].role = "assistant"
    /\ messages[2] = UserMsg(QuestionWhy)
    /\ messages[3] = SendErrorMsg
    /\ Len(ActiveChat) = 1
    /\ ActiveChat[1].messages = messages

(***************************************************************************)
(* C16: when processPdf fails and nothing else has touched the state since  *)
(* handleFileSelect was called, the chats, activeChatId, processedDoc, file *)
(* and messages are again what they were before the call, and no session of *)
(* the failed upload exists.                                                *)
(***************************************************************************)
\* the state is what the call of upload u left: its file selected and the
\* transcript cleared.  The call is made with no file selected and writes
\* neither chats, activeChatId nor processedDoc
AsLeftByCall(u) == file = Some(u.file) /\ messages = <<>>

C16_FailedUploadRolledBack ==
    [][(Len(uploads) = 1 /\ AsLeftByCall(uploads[1]) /\ UploadRejected)
          => /\ UNCHANGED <<chats, activeChatId, processedDoc>>
             /\ file' = Undefined
             /\ messages' = uploads[1].before.messages]_vars

(***************************************************************************)
(* C17: when the vector of the question and the embedding of a chunk have   *)
(* different lengths, the ranking fails: generateAnswer throws, no chunk is *)
(* scored and no prompt is built.                                           *)
(***************************************************************************)
WidthMismatch ==
    /\ ga # Undefined
    /\ ga[1].questionEmbedding # Undefined
    /\ \E k \in 1..Len(ga[1].doc.chunks) :
          Len(ga[1].doc.chunks[k].embedding[1]) # Len(ga[1].questionEmbedding[1])

C17_WidthMismatchIsFatal ==
    WidthMismatch =>
        /\ ga[1].pc = "thrown"
        /\ ga[1].top = <<>>
        /\ ga[1].prompt = Undefined
        /\ gaYields = <<>>

(***************************************************************************)
(* C18: with 0 < overlap < chunkSize, a chunk that ends at the end of the   *)
(* page text is the last chunk of its page; no chunk lies inside the chunk  *)
(* emitted just before it, and no chunk is empty.                           *)
(***************************************************************************)
C18_NothingAfterTheWindowThatEnds ==
    (ckPc = "done" /\ ValidConfig) =>
        \A i \in 1..Len(ckPages) :
            LET cs == ChunksOfPage(ckChunks, ckPages[i].page)
            IN  /\ \A k \in 1..Len(cs) : Len(cs[k].text) > 0
                /\ \A k \in 1..(Len(cs) - 1) :
                      /\ ChunkEnd(cs[k]) < Len(ckPages[i].text)
                      /\ ~(/\ ChunkStart(cs[k]) <= ChunkStart(cs[k + 1])
                            /\ ChunkEnd(cs[k + 1]) <= ChunkEnd(cs[k]))

(***************************************************************************)
(* C19: when the generation stream fails, the error fragment is the last    *)
(* fragment generateAnswer yields: neither the 'Full Document Analysis'     *)
(* marker nor a page citation follows it.                                   *)
(***************************************************************************)
C19_ErrorFragmentIsLast ==
    (ga # Undefined /\ ga[1].pc = "done" /\ gaStream.status = "failed") =>
        /\ Len(gaYields) = Len(gaStream.texts) + 1
        /\ gaYields[Len(gaYields)]
             = <<"Error generating response. Check browser console for details.">>

(***************************************************************************)
(* C20: the chunks chunkText returns have pairwise distinct ids, each made  *)
(* of the chunk's page number and of the offset its text starts at; every   *)
(* page number is that of a page of the input; the chunks come in page      *)
(* order and, within a page, at strictly increasing offsets.                *)
(***************************************************************************)
\* the page in the id `${page}-${start}`: what precedes the first "-"
IdPage(id) ==
    LET k == CHOOSE j \in 1..Len(id) : id[j] = "-" /\ \A h \in 1..(j - 1) : id[h] # "-"
    IN  StrToNum(SubSeq(id, 1, k - 1))

\* the index in the input of the page with this number
PageIndex(page) == CHOOSE i \in 1..Len(ckPages) : ckPages[i].page = page

C20_IdsDistinctAndOrdered ==
    ckPc = "done" =>
        /\ \A j, k \in 1..Len(ckChunks) : j # k => ckChunks[j].id # ckChunks[k].id
        /\ \A k \in 1..Len(ckChunks) :
              LET c == ckChunks[k]
              IN  /\ \E i \in 1..Len(ckPages) : ckPages[i].page = c.pageNumber
                  /\ IdPage(c.id) = c.pageNumber
                  /\ IdStart(c.id) >= 0
                  /\ c.text = SubSeq(ckPages[PageIndex(c.pageNumber)].text,
                                     IdStart(c.id) + 1, IdStart(c.id) + Len(c.text))
                  /\ Len(c.text) > 0
        /\ \A k \in 1..(Len(ckChunks) - 1) :
              LET c == ckChunks[k]
                  d == ckChunks[k + 1]
              IN  \/ PageIndex(c.pageNumber) < PageIndex(d.pageNumber)
                  \/ /\ c.pageNumber = d.pageNumber
                     /\ IdStart(c.id) < IdStart(d.id)

\* a finished run over two pages with two chunks or more each
C20_Witness ==
    /\ ckPc = "done"
    /\ Len(ckPages) = 2
    /\ \A i \in 1..2 : Len(ChunksOfPage(ckChunks, ckPages[i].page)) >= 2

(***************************************************************************)
(* C21: two chunks of exactly equal score keep their document order in the  *)
(* ranking, and of two such chunks the one the cutoff leaves out is the     *)
(* later one of the document.                                               *)
(***************************************************************************)
\* the position in the document of the chunk with this id
DocIndex(chunks, id) == CHOOSE j \in 1..Len(chunks) : chunks[j].id = id

\* two scores that are the same number
ScoresEqual(a, b) == ~a.nan /\ ~b.nan /\ ~ScoreAbove(a, b) /\ ~ScoreAbove(b, a)

C21_TiesKeepDocumentOrder ==
    (ga # Undefined /\ ga[1].questionEmbedding # Undefined) =>
        LET top == ga[1].top
            chunks == ga[1].doc.chunks
            q == ga[1].questionEmbedding[1]
            taken == {top[k].id : k \in 1..Len(top)}
        IN  /\ \A j, k \in 1..Len(top) :
                  (j < k /\ ScoresEqual(top[j].score, top[k].score)) =>
                      DocIndex(chunks, top[j].id) < DocIndex(chunks, top[k].id)
            /\ \A i \in 1..Len(chunks), k \in 1..Len(top) :
                  (/\ chunks[i].id \notin taken
                   /\ ScoresEqual(cosineSimilarity(q, chunks[i].embedding[1], ga[1].fl),
                                  top[k].score))
                      => DocIndex(chunks, top[k].id) < i

\* no chunk of the document being ranked has a NaN score
NoScoreIsNaN ==
    \A k \in 1..Len(ga[1].doc.chunks) :
        ~cosineSimilarity(ga[1].questionEmbedding[1],
                          ga[1].doc.chunks[k].embedding[1], ga[1].fl).nan

\* what the ranking does keep: with no NaN score among the chunks the
\* comparator is a total preorder, the result is in non-increasing order and
\* chunks of equal score stay in document order
RankedUnlessNaN ==
    (ga # Undefined /\ ga[1].questionEmbedding # Undefined /\ NoScoreIsNaN) =>
        (C10_TopChunksRanked /\ C21_TiesKeepDocumentOrder)

(***************************************************************************)
(* C22: a document is what processPdf returned after any number of          *)
(* generateAnswer calls on it, on either path: its chunks in their order    *)
(* with their ids, texts, page numbers and embeddings and no other field,   *)
(* and its fullText; no step of a call changes it.                          *)
(***************************************************************************)
\* the document is one processPdf returns: DocOf of its own embeddings
AsReturned(docData) ==
    /\ DOMAIN docData = {"chunks", "fullText"}
    /\ \A k \in 1..Len(docData.chunks) :
          DOMAIN docData.chunks[k] = {"id", "text", "pageNumber", "embedding"}
    /\ docData = DocOf([k \in 1..Len(docData.chunks) |-> docData.chunks[k].embedding[1]])

C22_DocumentImmutable ==
    /\ [](ga # Undefined => AsReturned(ga[1].doc))
    /\ [][(ga # Undefined /\ ga' # Undefined) => ga'[1].doc = ga[1].doc]_vars

\* the second Retrieval turn on a document of nine chunks has ended, and its
\* ranking put the last chunk of the document first
C22_Witness ==
    /\ ga # Undefined
    /\ ga[1].pc = "done"
    /\ ga[1].calls = <<"embedContent", "generateContentStream",
                       "embedContent", "generateContentStream">>
    /\ Len(ga[1].doc.chunks) = 9
    /\ ga[1].top[1].id = ga[1].doc.chunks[9].id
    /\ AsReturned(ga[1].doc)

(***************************************************************************)
(* C23: whenever no upload and no generation is in flight and activeChatId  *)
(* is not null, the messages stored in the chats entry whose id is          *)
(* activeChatId are the messages on display.                                *)
(***************************************************************************)
C23_StoredMessagesAreDisplayed ==
    (mounted /\ uploads = <<>> /\ gens = <<>> /\ activeChatId # Undefined) =>
        \A k \in 1..Len(chats) :
            Some(chats[k].id) = activeChatId => chats[k].messages = messages

(***************************************************************************)
(* C24: every handleSendMessage call that passes its guard is followed by   *)
(* isGenerating being false again, whether the turn completes, fails on the *)
(* embedding of the question or fails in the stream: a session with a       *)
(* generation in flight is eventually one that accepts a submission again.  *)
(***************************************************************************)
C24_GenerationFlagEventuallyCleared == isGenerating ~> ~isGenerating

(***************************************************************************)
(* C25: while isGenerating is true, loadChat leaves activeChatId, file,     *)
(* processedDoc, messages and processingStatus as they are; while a         *)
(* generation is in flight the only step that makes a session the active    *)
(* one is the end of an upload, which creates the session it activates.     *)
(***************************************************************************)
C25_LoadChatIgnoredWhileGenerating ==
    /\ [][(isGenerating /\ LoadChat)
            => UNCHANGED <<activeChatId, file, processedDoc, messages, processingStatus>>]_vars
    /\ [][(mounted /\ Len(gens) > 0 /\ activeChatId' # activeChatId
               /\ activeChatId' # Undefined)
            => /\ \E i \in 1..Len(uploads) : UploadSettles(i)
               /\ Len(chats') = Len(chats) + 1
               /\ Some(chats'[1].id) = activeChatId']_vars

\* a generation is streaming into the active session while another session
\* is stored and its entry in the list can be clicked
C25_Witness ==
    /\ mounted
    /\ isGenerating
    /\ Len(gens) = 1
    /\ ~Overtaken(gens[1])
    /\ gens[1].fullResponse # <<>>
    /\ Len(chats) = 2
    /\ \E k \in 1..Len(chats) : Some(chats[k].id) # activeChatId
    /\ ENABLED LoadChat

(***************************************************************************)
(* C26: handleDeleteChat removes one entry of chats, the one with the given  *)
(* id, and leaves every other entry in place; when the id is not            *)
(* activeChatId, file, processedDoc, messages and activeChatId stay as they *)
(* are, and when it is they are reset to the blank state of a new chat;     *)
(* activeChatId never names a session that is not in chats.                 *)
(***************************************************************************)
C26_DeleteRemovesOneSession ==
    /\ [][HandleDeleteChat =>
            \E k \in 1..Len(chats) :
                /\ chats' = RemoveAt(chats, k)
                /\ \A j \in 1..Len(chats') : chats'[j].id # chats[k].id
                /\ IF activeChatId = Some(chats[k].id)
                   THEN /\ file' = Undefined
                        /\ processedDoc' = Undefined
                        /\ messages' = <<>>
                        /\ activeChatId' = Undefined
                   ELSE UNCHANGED <<file, processedDoc, messages, activeChatId>>]_vars
    /\ [](activeChatId # Undefined =>
            \E k \in 1..Len(chats) : Some(chats[k].id) = activeChatId)

====
